---- MODULE Spec2Model ----
(***************************************************************************)
(* Model of the ERM HTTP API handlers (utils/api.py) and of the Discord    *)
(* pagination view (utils/paginator.py).                                   *)
(*                                                                         *)
(* Specifications sharing the module:                                      *)
(*   Spec           token issuance and linking (GET_get_token,             *)
(*                  POST_authorize_token) under a moving clock             *)
(*   SpecDuty       POST_duty_on / POST_duty_off, started from stores in   *)
(*                  which tokens have been issued and linked               *)
(*   SpecSettings   POST_update_guild_settings on a guild's settings       *)
(*   SpecGated      the token-gated handlers under a moving clock          *)
(*   SpecRace       GET_get_token requests interleaved at their awaits     *)
(*   SpecLink       POST_authorize_token calls interleaved at their awaits *)
(*   SpecPaginator  a constructed Paginator / StaticPaginator and its two  *)
(*                  button callbacks                                       *)
(* Each handler is one atomic action, except in the interleaved            *)
(* specifications, where a handler is one action per await.                *)
(* The document collections, the shift                                     *)
(* ledger and tokenGenerator live outside utils/ and are modelled by their *)
(* contract: find / $set-by-id, open / close a shift record, fresh string. *)
(***************************************************************************)
EXTENDS Integers, Sequences, FiniteSets, TLC

VARIABLES
    \* ---- utils/api.py ----
    now,            \* int(datetime.datetime.now().timestamp())
    ticks,          \* number of clock advances so far (bounded)
    ntok,           \* number of strings tokenGenerator() has produced
    api_tokens,     \* bot.api_tokens: client host -> token document
    link_strings,   \* bot.link_strings: link-string id -> document
    settings,       \* bot.settings: guild id -> settings document
    shifts,         \* bot.shift_management.shifts: member id -> document
    last,           \* the last request handled and its response
    inflight,       \* the requests of the interleaved specifications, in
                    \* order of arrival: position, locals and response
    \* ---- utils/paginator.py ----
    kind,           \* "Paginator" | "StaticPaginator" | "none"
    lines,          \* StaticPaginator.lines / the embeds of example_callback
    line_limit,     \* StaticPaginator.line_limit
    pages,          \* Paginator.pages
    page,           \* Paginator.page
    shown,          \* description last pushed with edit_message
    prev_disabled,  \* prev_button.disabled
    next_disabled   \* next_button.disabled

apiVars == <<now, ticks, ntok, api_tokens, link_strings, settings, shifts, last,
            inflight>>
pagVars == <<kind, lines, line_limit, pages, page, shown, prev_disabled, next_disabled>>
vars == <<now, ticks, ntok, api_tokens, link_strings, settings, shifts, last, inflight,
          kind, lines, line_limit, pages, page, shown, prev_disabled, next_disabled>>

(***************************************************************************)
(* Bounds                                                                  *)
(***************************************************************************)
MaxLines == 4        \* longest list of lines given to a StaticPaginator
MaxLimit == 3        \* largest line_limit tried besides the default
MaxPages == 3        \* largest page count given to a plain Paginator
ExampleLines == 32   \* length of the long list of lines of the example
MaxTicks == 2        \* clock advances in one behaviour
MaxTokens == 2       \* token strings generated in one behaviour
MaxShifts == 2       \* open shift records kept for one member
MaxBodyKeys == 2     \* top-level keys besides "guild" in a settings request
MaxRequests == 2     \* requests in one interleaved behaviour

Max(a, b) == IF a >= b THEN a ELSE b
Min(a, b) == IF a <= b THEN a ELSE b

(***************************************************************************)
(* utils/paginator.py                                                      *)
(***************************************************************************)
NL == "\n"
DefaultLineLimit == 15

\* Python's s[m:n] on a list, 0-based, with the clamping of negative and
\* out-of-range bounds.
PyBound(i, len) == IF i < 0 THEN Max(len + i, 0) ELSE Min(i, len)
PySlice(s, m, n) ==
    LET lo == PyBound(m, Len(s))
        hi == PyBound(n, Len(s))
    IN  IF hi <= lo THEN <<>> ELSE SubSeq(s, lo + 1, hi)

\* "\n".join(strs): strings are sequences of characters.
RECURSIVE Join(_)
Join(strs) ==
    IF Len(strs) = 0 THEN <<>>
    ELSE IF Len(strs) = 1 THEN strs[1]
    ELSE strs[1] \o <<NL>> \o Join(Tail(strs))

\* math.ceil(len(lines) / line_limit) for a positive line_limit
FloorDiv(a, b) == a \div b
CeilDiv(a, b) == IF a % b = 0 THEN a \div b ELSE (a \div b) + 1

\* the callback closure of StaticPaginator.__init__: the description of the
\* embed it returns
StaticCallback(ls, limit, p) ==
    LET m == (p - 1) * limit
        n == p * limit
    IN  Join(PySlice(ls, m, n))

\* example_callback(embeds)(page) == embeds[page - 1]; Python indexing
\* accepts -len..len-1 and raises IndexError otherwise
PyIndexOK(s, i) == i >= 0 - Len(s) /\ i < Len(s)
PyIndex(s, i) == IF i < 0 THEN s[Len(s) + i + 1] ELSE s[i + 1]

CallbackRaises == kind = "Paginator" /\ ~PyIndexOK(lines, page' - 1)
Callback(p) ==
    IF kind = "StaticPaginator" THEN StaticCallback(lines, line_limit, p)
    ELSE PyIndex(lines, p - 1)

\* Paginator._update_buttons, on the new page
update_buttons ==
    /\ prev_disabled' = (page' <= 1)
    /\ next_disabled' = (page' >= pages)

Chars == {"a", "b"}
Line == {<<>>} \cup {<<c>> : c \in Chars}
LineLists == UNION {[1..n -> Line] : n \in 0..MaxLines}

\* the i-th line of the long example: its index written with six binary digits
ExampleLine(i) ==
    [k \in 1..6 |-> IF (i \div (2 ^ (6 - k))) % 2 = 1 THEN "b" ELSE "a"]
ExampleList == [i \in 1..ExampleLines |-> ExampleLine(i - 1)]

\* state right after Paginator.__init__ / StaticPaginator.__init__
PagConstructed ==
    /\ kind \in {"Paginator", "StaticPaginator"}
    /\ \/ /\ kind = "StaticPaginator"
          /\ \/ lines \in LineLists /\ line_limit \in 1..MaxLimit
             \/ lines = ExampleList /\ line_limit = DefaultLineLimit
          /\ pages = CeilDiv(Len(lines), line_limit)
       \/ /\ kind = "Paginator"
          /\ lines \in {ls \in LineLists : Len(ls) >= MaxLines - 1}
          /\ line_limit = 0
          /\ pages \in (0 - 1)..MaxPages
    /\ page = 1
    /\ shown = <<>>
    /\ prev_disabled = (page <= 1)
    /\ next_disabled = (page >= pages)

PagIdle ==
    /\ kind = "none"
    /\ lines = <<>>
    /\ line_limit = 0
    /\ pages = 0
    /\ page = 0
    /\ shown = <<>>
    /\ prev_disabled = FALSE
    /\ next_disabled = FALSE

\* self.page = max(self.page - 1, 1)
PrevPage(p) == Max(p - 1, 1)

\* self.page = min(self.page + 1, self.pages)
NextPageUnclamped(p, n) == p + 1
NextPage(p, n) == Min(p + 1, n)

prev_button ==
    /\ kind # "none"
    /\ page' = PrevPage(page)
    /\ update_buttons
    /\ shown' = IF CallbackRaises THEN shown ELSE Callback(page')
    /\ UNCHANGED <<kind, lines, line_limit, pages>>
    /\ UNCHANGED apiVars

next_button ==
    /\ kind # "none"
    /\ page' = NextPage(page, pages)
    /\ update_buttons
    /\ shown' = IF CallbackRaises THEN shown ELSE Callback(page')
    /\ UNCHANGED <<kind, lines, line_limit, pages>>
    /\ UNCHANGED apiVars

(***************************************************************************)
(* utils/api.py                                                            *)
(***************************************************************************)
TokenLifetime == 2592000     \* 2.592e6 seconds, 30 days

\* header and secret values; a generated token string is <<"tok", n>>
NoHeader == <<"none", 0>>            \* header absent (None)
StaticToken == <<"static", 0>>       \* config("API_STATIC_TOKEN")
PrivateKey == <<"private", 0>>       \* config("API_PRIVATE_KEY")
Tok(n) == <<"tok", n>>
UnknownToken == Tok(0)               \* well-formed, never issued
None == "None"                       \* None for string-valued inputs
NoDoc == [none |-> TRUE]             \* a handler returning no document

Hosts == {"h1", "h2"}                \* request.client.host
AuthValues == {NoHeader, StaticToken, PrivateKey} \cup {Tok(n) : n \in 0..MaxTokens}
\* authorization headers tried on each route: GET_get_token only compares
\* with the private key, the other routes only look the value up as a token
KeyHeaders == {PrivateKey, StaticToken}
TokenHeaders == {NoHeader, StaticToken} \cup {Tok(n) : n \in 0..MaxTokens}
LinkHeaders == {None, "L1", "L2", "L9"}

HasKey(doc, k) == k \in DOMAIN doc

\* Document.upsert / Document.update_by_id: $set of the given fields on the
\* document with that _id (upsert inserts when there is none)
Upsert(store, obj) ==
    IF obj._id \in DOMAIN store
    THEN [store EXCEPT ![obj._id] = obj @@ @]
    ELSE (obj._id :> obj) @@ store
UpdateById(store, obj) ==
    IF obj._id \in DOMAIN store
    THEN [store EXCEPT ![obj._id] = obj @@ @]
    ELSE store

\* bot.api_tokens.db.find_one({"token": token})
TokenHosts(token) == {h \in DOMAIN api_tokens : api_tokens[h].token = token}
TokenFound(token) == TokenHosts(token) # {}
TokenDoc(token) == api_tokens[CHOOSE h \in TokenHosts(token) : TRUE]

\* tokenGenerator(): a string no earlier call returned
tokenGenerator == Tok(ntok + 1)

\* the comparison of validate_authorization: now < expires_at
NotExpiredLax(t, doc) == t <= doc.expires_at
NotExpired(t, doc) == t < doc.expires_at

\* validate_authorization(bot, token, disable_static_tokens): "True",
\* "False", or the exception it raises
validate_authorization(token, disable_static_tokens) ==
    IF ~disable_static_tokens /\ token = StaticToken THEN "True"
    ELSE IF ~TokenFound(token) THEN "False"
    ELSE LET token_obj == TokenDoc(token)
         IN  IF ~HasKey(token_obj, "expires_at") THEN "KeyError"
             ELSE IF NotExpired(now, token_obj) THEN "True"
             ELSE "False"

\* the reuse test of GET_get_token: not now > expires_at
ReuseNever(t, doc) == FALSE
Reusable(t, doc) == ~(t > doc.expires_at)

Resp(op, req, status, ret) ==
    [op |-> op, req |-> req, status |-> status, ret |-> ret]

\* the clock moves forward between requests; the instants that matter are
\* those just before, at and just after the expiry of a stored token
TickTargets ==
    {api_tokens[h].expires_at + d : h \in DOMAIN api_tokens, d \in {0 - 1, 0, 1}}
Tick ==
    /\ ticks < MaxTicks
    /\ \E t \in TickTargets :
          /\ t > now
          /\ now' = t
    /\ ticks' = ticks + 1
    /\ UNCHANGED <<ntok, api_tokens, link_strings, settings, shifts, last>>
    /\ UNCHANGED <<pagVars, inflight>>

GET_get_token(host, authorization) ==
    LET req == [host |-> host, authorization |-> authorization] IN
    /\ IF authorization # PrivateKey
       THEN /\ last' = Resp("get_token", req, 401, NoDoc)
            /\ UNCHANGED <<ntok, api_tokens>>
       ELSE IF host \in DOMAIN api_tokens /\ Reusable(now, api_tokens[host])
       THEN /\ last' = Resp("get_token", req, 200, api_tokens[host])
            /\ UNCHANGED <<ntok, api_tokens>>
       ELSE /\ ntok < MaxTokens
            /\ LET object == [_id |-> host,
                              token |-> tokenGenerator,
                              created_at |-> now,
                              expires_at |-> now + TokenLifetime]
               IN  /\ api_tokens' = Upsert(api_tokens, object)
                   /\ last' = Resp("get_token", req, 200, object)
            /\ ntok' = ntok + 1
    /\ UNCHANGED <<now, ticks, link_strings, settings, shifts>>
    /\ UNCHANGED <<pagVars, inflight>>

\* the writes of POST_authorize_token to the link-string document
LinkUpdateWrongIp(link_string_obj, authorization, token_obj) ==
    ("token" :> authorization) @@ ("ip" :> token_obj.token)
        @@ ("link_string" :> link_string_obj._id) @@ link_string_obj
LinkUpdate(link_string_obj, authorization, token_obj) ==
    ("token" :> authorization) @@ ("ip" :> token_obj._id)
        @@ ("link_string" :> link_string_obj._id) @@ link_string_obj

\* the token check of POST_authorize_token: static bypass disabled
AuthorizeCheckStatic(authorization) == validate_authorization(authorization, FALSE)
AuthorizeCheck(authorization) == validate_authorization(authorization, TRUE)

POST_authorize_token(authorization, x_link_string) ==
    LET req == [authorization |-> authorization, x_link_string |-> x_link_string] IN
    /\ IF authorization = NoHeader
       THEN /\ last' = Resp("authorize_token", req, 401, NoDoc)
            /\ UNCHANGED <<api_tokens, link_strings>>
       ELSE IF AuthorizeCheck(authorization) = "KeyError"
       THEN /\ last' = Resp("authorize_token", req, 500, NoDoc)
            /\ UNCHANGED <<api_tokens, link_strings>>
       ELSE IF AuthorizeCheck(authorization) # "True"
       THEN /\ last' = Resp("authorize_token", req, 401, NoDoc)
            /\ UNCHANGED <<api_tokens, link_strings>>
       ELSE IF x_link_string = None
       THEN /\ last' = Resp("authorize_token", req, 401, NoDoc)
            /\ UNCHANGED <<api_tokens, link_strings>>
       ELSE IF x_link_string \notin DOMAIN link_strings
       THEN /\ last' = Resp("authorize_token", req, 401, NoDoc)
            /\ UNCHANGED <<api_tokens, link_strings>>
       ELSE IF ~TokenFound(authorization)
       THEN \* token_obj is None: token_obj["_id"] raises TypeError
            /\ last' = Resp("authorize_token", req, 500, NoDoc)
            /\ UNCHANGED <<api_tokens, link_strings>>
       ELSE LET token_obj == TokenDoc(authorization)
                link_string_obj ==
                    LinkUpdate(link_strings[x_link_string], authorization, token_obj)
                token_upd == ("link_string" :> link_string_obj._id) @@ token_obj
            IN  /\ link_strings' = UpdateById(link_strings, link_string_obj)
                /\ api_tokens' = UpdateById(api_tokens, token_upd)
                /\ last' = Resp("authorize_token", req, 200, link_string_obj)
    /\ UNCHANGED <<now, ticks, ntok, settings, shifts>>
    /\ UNCHANGED <<pagVars, inflight>>

\* the documents the bot starts with: link strings are created by the bot's
\* commands, each for one guild
InitialLinkStrings ==
    ("L1" :> [_id |-> "L1", guild |-> "G1"]) @@
    ("L2" :> [_id |-> "L2", guild |-> "G2"])

\* ---- duty handlers ----

BotGuilds == {"G1", "G2"}                 \* bot.get_guild(id) finds these
GuildMembers == ("G1" :> {"M1"}) @@ ("G2" :> {"M1"})   \* guild.fetch_member
\* bot.fivem_links: steam id -> linkage document ("M2" is in no guild)
FivemLinks ==
    ("S1" :> [_id |-> "M1", steam_id |-> "S1", license |-> "C1"]) @@
    ("S2" :> [_id |-> "M2", steam_id |-> "S2", license |-> "C2"])
SteamIds == {None, "S1", "S2", "S9"}
ShiftTypes == {None, "patrol", "swat"}
BodyGuilds == {None, "G1", "G2"}
\* request bodies: a field that is None is absent; {} has none of them
Bodies == [steam_id : SteamIds, shift_type : ShiftTypes, guild : BodyGuilds]
\* POST_duty_on never reads "guild", POST_duty_off never reads "shift_type"
DutyOnBodies == {body \in Bodies : body.guild = None}
DutyOffBodies == {body \in Bodies : body.shift_type = None}
BodyEmpty(body) ==
    body.steam_id = None /\ body.shift_type = None /\ body.guild = None

\* the inline expiry test of POST_duty_on: now > expires_at
Expired(t, doc) == t > doc.expires_at

\* available_shift_types of POST_duty_on; bound only when
\* settings.get("shift_types") is truthy
AvailableBound(st) == HasKey(st, "shift_types") /\ Len(st.shift_types) > 0
available_shift_types(st) ==
    {st.shift_types[i].id : i \in 1..Len(st.shift_types)}

\* bot.shift_management.add_shift_by_user(member, data): opens a shift
\* record for the member in the guild
add_shift_by_user(member, entry) ==
    IF member \in DOMAIN shifts
    THEN [shifts EXCEPT ![member].data = Append(@, entry)]
    ELSE (member :> [_id |-> member, data |-> <<entry>>]) @@ shifts

\* bot.shift_management.remove_shift_by_user(member, {guild, shift}): closes
\* that shift record
RemoveFirst(data, shift) ==
    LET i == CHOOSE k \in 1..Len(data) :
                 data[k] = shift /\ \A j \in 1..(k - 1) : data[j] # shift
    IN  SubSeq(data, 1, i - 1) \o SubSeq(data, i + 1, Len(data))
remove_shift_by_user(member, shift) ==
    [shifts EXCEPT ![member].data = RemoveFirst(@, shift)]

\* list(filter(lambda x: (x or {}).get("guild") == guild.id, shifts["data"]))
AssociatedShifts(data, guild) ==
    SelectSeq(data, LAMBDA x : x.guild = guild)

\* the checks of POST_duty_on up to the settings lookup: the status of the
\* HTTPException (500 for an uncaught exception), or 0 with guild and member
ResolveOn(authorization, body) ==
    IF authorization = NoHeader THEN [status |-> 401]
    ELSE IF ~TokenFound(authorization) THEN [status |-> 401]
    ELSE LET token_obj == TokenDoc(authorization) IN
    IF Expired(now, token_obj) THEN [status |-> 401]
    ELSE IF ~HasKey(token_obj, "link_string") THEN [status |-> 500]
    ELSE IF token_obj.link_string \notin DOMAIN link_strings THEN [status |-> 401]
    ELSE LET guild == link_strings[token_obj.link_string].guild IN
    IF guild \notin BotGuilds THEN [status |-> 404]
    ELSE IF BodyEmpty(body) THEN [status |-> 400]
    ELSE IF body.steam_id = None THEN [status |-> 400]
    ELSE IF body.steam_id \notin DOMAIN FivemLinks THEN [status |-> 404]
    ELSE LET member == FivemLinks[body.steam_id]._id IN
    IF member \notin GuildMembers[guild] THEN [status |-> 404]
    ELSE IF guild \notin DOMAIN settings THEN [status |-> 404]
    ELSE [status |-> 0, guild |-> guild, member |-> member]

POST_duty_on(authorization, body) ==
    LET req == [authorization |-> authorization, body |-> body]
        r == ResolveOn(authorization, body)
    IN
    /\ IF r.status # 0
       THEN /\ last' = Resp("duty_on", req, r.status, NoDoc)
            /\ UNCHANGED shifts
       ELSE IF body.shift_type = None
       THEN /\ r.member \in DOMAIN shifts => Len(shifts[r.member].data) < MaxShifts
            /\ shifts' = add_shift_by_user(r.member, [guild |-> r.guild])
            /\ last' = Resp("duty_on", req, 200,
                            [status |-> "success", member |-> r.member,
                             shift_type |-> body.shift_type])
       ELSE IF ~AvailableBound(settings[r.guild])
       THEN \* available_shift_types is unbound: UnboundLocalError
            /\ last' = Resp("duty_on", req, 500, NoDoc)
            /\ UNCHANGED shifts
       ELSE IF body.shift_type \notin available_shift_types(settings[r.guild])
       THEN /\ last' = Resp("duty_on", req, 400, NoDoc)
            /\ UNCHANGED shifts
       ELSE /\ r.member \in DOMAIN shifts => Len(shifts[r.member].data) < MaxShifts
            /\ shifts' = add_shift_by_user(r.member,
                              [guild |-> r.guild, shift_type |-> body.shift_type])
            /\ last' = Resp("duty_on", req, 200,
                            [status |-> "success", member |-> r.member,
                             shift_type |-> body.shift_type])
    /\ UNCHANGED <<now, ticks, ntok, api_tokens, link_strings, settings>>
    /\ UNCHANGED <<pagVars, inflight>>

\* the checks of POST_duty_off up to the search for the open shift
ResolveOff(authorization, body) ==
    IF authorization = NoHeader THEN [status |-> 401]
    ELSE IF validate_authorization(authorization, FALSE) = "KeyError"
    THEN [status |-> 500]
    ELSE IF validate_authorization(authorization, FALSE) # "True"
    THEN [status |-> 401]
    ELSE IF TokenFound(authorization)
    THEN LET token_obj == TokenDoc(authorization) IN
         IF ~HasKey(token_obj, "link_string") THEN [status |-> 500]
         ELSE IF token_obj.link_string \notin DOMAIN link_strings
         THEN [status |-> 401]
         ELSE LET guild == link_strings[token_obj.link_string].guild IN
         IF guild \notin BotGuilds THEN [status |-> 404]
         ELSE IF BodyEmpty(body) THEN [status |-> 400]
         ELSE IF body.steam_id = None THEN [status |-> 400]
         ELSE IF body.steam_id \notin DOMAIN FivemLinks THEN [status |-> 404]
         ELSE LET member == FivemLinks[body.steam_id]._id IN
         IF member \notin GuildMembers[guild] THEN [status |-> 404]
         ELSE IF guild \notin DOMAIN settings THEN [status |-> 404]
         ELSE IF member \notin DOMAIN shifts THEN [status |-> 404]
         ELSE IF Len(AssociatedShifts(shifts[member].data, guild)) = 0
         THEN [status |-> 404]
         ELSE [status |-> 0, guild |-> guild, member |-> member]
    ELSE \* no token document: guild = data['guild'] is the raw body value
         IF body.guild = None THEN [status |-> 500]     \* KeyError
         \* guild.fetch_member(fivem_link["_id"]): the raw value has no
         \* fetch_member and fivem_link was never assigned
         ELSE [status |-> 500]

POST_duty_off(authorization, body) ==
    LET req == [authorization |-> authorization, body |-> body]
        r == ResolveOff(authorization, body)
    IN
    /\ IF r.status # 0
       THEN /\ last' = Resp("duty_off", req, r.status, NoDoc)
            /\ UNCHANGED shifts
       ELSE LET associated_shift ==
                    AssociatedShifts(shifts[r.member].data, r.guild)[1]
            IN  /\ shifts' = remove_shift_by_user(r.member, associated_shift)
                /\ last' = Resp("duty_off", req, 200, NoDoc)
    /\ UNCHANGED <<now, ticks, ntok, api_tokens, link_strings, settings>>
    /\ UNCHANGED <<pagVars, inflight>>

\* guild settings: G1 has one shift type, G2 has none configured (the key is
\* absent or the list is empty)
SettingsChoices ==
    {("G1" :> [_id |-> "G1", shift_types |-> <<[id |-> "patrol"]>>]) @@
     ("G2" :> g2) :
        g2 \in {[_id |-> "G2"], [_id |-> "G2", shift_types |-> <<>>]}}

\* token documents as GET_get_token issues them at time 0 and
\* POST_authorize_token links them
IssuedToken(host, n) ==
    [_id |-> host, token |-> Tok(n), created_at |-> 0,
     expires_at |-> TokenLifetime]
LinkedToken(host, n, L) == ("link_string" :> L) @@ IssuedToken(host, n)
LinkedLink(L, host, n) ==
    LinkUpdate(InitialLinkStrings[L], Tok(n), IssuedToken(host, n))

\* the stores after h1 and h2 fetched tokens and h1 (and possibly h2) linked
\* a guild
DutyStarted ==
    /\ now = 0
    /\ ticks = 0
    /\ ntok = 2
    /\ \/ /\ api_tokens = ("h1" :> LinkedToken("h1", 1, "L1")) @@
                          ("h2" :> IssuedToken("h2", 2))
          /\ link_strings = ("L1" :> LinkedLink("L1", "h1", 1)) @@
                            ("L2" :> InitialLinkStrings["L2"])
       \/ /\ api_tokens = ("h1" :> LinkedToken("h1", 1, "L1")) @@
                          ("h2" :> LinkedToken("h2", 2, "L2"))
          /\ link_strings = ("L1" :> LinkedLink("L1", "h1", 1)) @@
                            ("L2" :> LinkedLink("L2", "h2", 2))
    /\ settings \in SettingsChoices
    /\ shifts = <<>>
    /\ last = Resp("none", NoDoc, 0, NoDoc)
    /\ inflight = <<>>

ApiStarted ==
    /\ now = 0
    /\ ticks = 0
    /\ ntok = 0
    /\ api_tokens = <<>>
    /\ link_strings = InitialLinkStrings
    /\ settings = <<>>
    /\ shifts = <<>>
    /\ last = Resp("none", NoDoc, 0, NoDoc)
    /\ inflight = <<>>

ApiIdle ==
    /\ now = 0
    /\ ticks = 0
    /\ ntok = 0
    /\ api_tokens = <<>>
    /\ link_strings = <<>>
    /\ settings = <<>>
    /\ shifts = <<>>
    /\ last = Resp("none", NoDoc, 0, NoDoc)
    /\ inflight = <<>>

(***************************************************************************)
(* Specifications                                                          *)
(***************************************************************************)
PagInit == PagConstructed /\ ApiIdle
PagNext == prev_button \/ next_button
SpecPaginator == PagInit /\ [][PagNext]_vars

Init == ApiStarted /\ PagIdle
Next ==
    \/ Tick
    \/ \E host \in Hosts, authorization \in KeyHeaders :
          GET_get_token(host, authorization)
    \/ \E authorization \in TokenHeaders, x_link_string \in LinkHeaders :
          POST_authorize_token(authorization, x_link_string)
Spec == Init /\ [][Next]_vars

DutyInit == DutyStarted /\ PagIdle
DutyNext ==
    \/ Tick
    \/ \E authorization \in TokenHeaders, body \in DutyOnBodies :
          POST_duty_on(authorization, body)
    \/ \E authorization \in TokenHeaders, body \in DutyOffBodies :
          POST_duty_off(authorization, body)
SpecDuty == DutyInit /\ [][DutyNext]_vars

(***************************************************************************)
(* Claims about the paginator (checked under SpecPaginator)                *)
(***************************************************************************)

\* C4 (as stated): for a Paginator constructed with ANY page count, the page
\* cursor satisfies 1 <= page <= pages after construction and after any
\* sequence of button presses.
C4_PageWithinBoundsAnyPages ==
    kind # "none" => (1 <= page /\ page <= pages)

\* C4 (amended): for a Paginator constructed with a page count pages >= 1,
\* the page cursor satisfies 1 <= page <= pages after construction and after
\* any sequence of "next" and "previous" presses, presses at the bounds
\* included.
C4_PageWithinBounds ==
    (kind # "none" /\ pages >= 1) => (1 <= page /\ page <= pages)

\* a press has been handled and the cursor stands on the last of several pages
C4_Witness ==
    /\ kind # "none"
    /\ pages >= 2
    /\ page = pages
    /\ next_disabled
    /\ shown # <<>>

\* the lines the claim expects on page N: those with 0-based index in
\* [(N-1)*line_limit, N*line_limit)
ExpectedLines(N) ==
    LET idx == {i \in 0..(Len(lines) - 1) :
                   (N - 1) * line_limit <= i /\ i < N * line_limit}
    IN  [k \in 1..Cardinality(idx) |-> lines[(N - 1) * line_limit + k]]

\* C5: for a StaticPaginator the page count is ceil(len(lines)/line_limit)
\* (the least k with k*line_limit >= len(lines)), every page N in 1..pages
\* renders exactly the lines with indices in [(N-1)*line_limit, N*line_limit)
\* in order, and 32 lines with line_limit 15 give 3 pages of which the third
\* renders lines 30 and 31.
C5_PageCountAndSlices ==
    kind = "StaticPaginator" =>
        /\ pages * line_limit >= Len(lines)
        /\ (pages - 1) * line_limit < Len(lines)
        /\ \A N \in 1..pages :
               StaticCallback(lines, line_limit, N) = Join(ExpectedLines(N))
        /\ (shown # <<>> /\ page \in 1..pages) => shown = Join(ExpectedLines(page))
        /\ (Len(lines) = 32 /\ line_limit = 15) =>
               /\ pages = 3
               /\ StaticCallback(lines, line_limit, 3) =
                      lines[31] \o <<NL>> \o lines[32]

\* the last, partly filled page of a StaticPaginator is on display
C5_Witness ==
    /\ kind = "StaticPaginator"
    /\ pages >= 2
    /\ page = pages
    /\ Len(lines) % line_limit # 0
    /\ shown = Join(ExpectedLines(pages))
    /\ shown # <<>>

(***************************************************************************)
(* Claims about token issuance and authorization (checked under Spec)      *)
(***************************************************************************)

\* C1: token issuance is idempotent within the validity window: a correctly
\* authorized get_token call from an address whose stored token has not yet
\* expired returns that stored token (same token string, created_at and
\* expires_at) and leaves the Token Store as it is; the call that issued the
\* token returned the very object it stored.
C1_IdempotentIssuance ==
    [][(last'.op = "get_token" /\ last'.req.authorization = PrivateKey) =>
          LET host == last'.req.host IN
          GET_get_token(host, PrivateKey) =>
              /\ (host \in DOMAIN api_tokens /\ now < api_tokens[host].expires_at) =>
                    /\ last'.status = 200
                    /\ last'.ret.token = api_tokens[host].token
                    /\ last'.ret.created_at = api_tokens[host].created_at
                    /\ last'.ret.expires_at = api_tokens[host].expires_at
                    /\ api_tokens' = api_tokens
              /\ (last'.status = 200) =>
                    /\ last'.ret.token = api_tokens'[host].token
                    /\ last'.ret.created_at = api_tokens'[host].created_at
                    /\ last'.ret.expires_at = api_tokens'[host].expires_at]_vars

\* a get_token call has returned a stored token that was issued earlier (it
\* has since been linked, and time has passed) before its expiry
C1_Witness ==
    /\ last.op = "get_token"
    /\ last.status = 200
    /\ HasKey(last.ret, "link_string")
    /\ last.ret = api_tokens[last.req.host]
    /\ now > last.ret.created_at
    /\ now < last.ret.expires_at

\* C2: validate_authorization returns true iff (the static bypass is enabled
\* and the token equals the static secret) or (a document with that token
\* string is stored and the current time is strictly less than its
\* expires_at); otherwise it returns false, and it never raises.
C2_ValidateIff ==
    \A token \in AuthValues, disable_static_tokens \in BOOLEAN :
        LET r == validate_authorization(token, disable_static_tokens)
        IN  /\ r \in {"True", "False"}
            /\ (r = "True") <=>
                  \/ (~disable_static_tokens /\ token = StaticToken)
                  \/ \E h \in DOMAIN api_tokens :
                        /\ api_tokens[h].token = token
                        /\ now < api_tokens[h].expires_at

\* authorize_token has just rejected a stored token at the very second of its
\* expiry, while another stored token is still valid
C2_Witness ==
    /\ last.op = "authorize_token"
    /\ last.status = 401
    /\ \E h \in DOMAIN api_tokens :
          /\ api_tokens[h].token = last.req.authorization
          /\ now = api_tokens[h].expires_at
    /\ \E h \in DOMAIN api_tokens : now < api_tokens[h].expires_at

\* C6: after a successful authorize_token call with a valid dynamic token T
\* and an existing link-string id L, the stored link-string document L has
\* token = T and ip = the client address owning T, the stored token document
\* of T has link_string = L, and the call returned the updated link-string
\* document.
C6_AuthorizeLinksBoth ==
    [][(last'.op = "authorize_token") =>
          LET T == last'.req.authorization
              L == last'.req.x_link_string IN
          (POST_authorize_token(T, L) /\ last'.status = 200) =>
              /\ L \in DOMAIN link_strings'
              /\ HasKey(link_strings'[L], "token")
              /\ HasKey(link_strings'[L], "ip")
              /\ link_strings'[L].token = T
              /\ \E h \in DOMAIN api_tokens :
                    /\ api_tokens[h].token = T
                    /\ link_strings'[L].ip = h
                    /\ HasKey(api_tokens'[h], "link_string")
                    /\ api_tokens'[h].link_string = L
                    /\ api_tokens'[h].token = T
              /\ last'.ret = link_strings'[L]]_vars

\* a token has been linked, and both documents carry the cross-reference
C6_Witness ==
    /\ last.op = "authorize_token"
    /\ last.status = 200
    /\ last.req.x_link_string \in DOMAIN link_strings
    /\ link_strings[last.req.x_link_string].token = last.req.authorization
    /\ \E h \in DOMAIN api_tokens :
          /\ api_tokens[h].token = last.req.authorization
          /\ HasKey(api_tokens[h], "link_string")
          /\ api_tokens[h].link_string = last.req.x_link_string

\* the token is a stored dynamic token that has not expired
ValidDynamic(T) ==
    \E h \in DOMAIN api_tokens :
        api_tokens[h].token = T /\ now < api_tokens[h].expires_at

\* C7: authorize_token never accepts the static bypass token: a request whose
\* authorization is missing, is the static secret, is an unknown or expired
\* dynamic token, or whose link-string header is missing or names no stored
\* link-string document, fails with 401 and leaves the Token Store and the
\* Link-String Store unchanged.
C7_AuthorizeRejects ==
    [][(last'.op = "authorize_token") =>
          LET T == last'.req.authorization
              L == last'.req.x_link_string IN
          (/\ POST_authorize_token(T, L)
           /\ \/ T = NoHeader
              \/ T = StaticToken
              \/ ~ValidDynamic(T)
              \/ L = None
              \/ L \notin DOMAIN link_strings) =>
              /\ last'.status = 401
              /\ api_tokens' = api_tokens
              /\ link_strings' = link_strings]_vars

\* the static secret has just been presented to authorize_token, with a
\* stored link string, while a valid token and a linked token exist
C7_Witness ==
    /\ last.op = "authorize_token"
    /\ last.req.authorization = StaticToken
    /\ last.req.x_link_string \in DOMAIN link_strings
    /\ last.status = 401
    /\ \E h \in DOMAIN api_tokens :
          HasKey(api_tokens[h], "link_string") /\ now < api_tokens[h].expires_at

(***************************************************************************)
(* Claims about the duty handlers (checked under SpecDuty)                 *)
(***************************************************************************)

\* the guild a stored, linked token resolves to (token -> link string -> guild)
HasTokenGuild(T) ==
    /\ TokenFound(T)
    /\ HasKey(TokenDoc(T), "link_string")
    /\ TokenDoc(T).link_string \in DOMAIN link_strings
TokenGuild(T) == link_strings[TokenDoc(T).link_string].guild

\* the open shift records of a member in a guild
OpenShifts(store, member, guild) ==
    IF member \in DOMAIN store
    THEN AssociatedShifts(store[member].data, guild)
    ELSE <<>>

\* C3: a successful duty-on followed by a successful duty-off for the same
\* member and guild leaves no open shift record for that (member, guild)
\* pair.
C3_OnThenOffLeavesNone ==
    [][(last'.op = "duty_off") =>
          LET T == last'.req.authorization
              body == last'.req.body IN
          (/\ last.op = "duty_on"
           /\ last.status = 200
           /\ POST_duty_off(T, body)
           /\ last'.status = 200
           /\ HasTokenGuild(T)
           /\ HasTokenGuild(last.req.authorization)
           /\ TokenGuild(T) = TokenGuild(last.req.authorization)
           /\ body.steam_id \in DOMAIN FivemLinks
           /\ FivemLinks[body.steam_id]._id = last.ret.member) =>
              Len(OpenShifts(shifts', last.ret.member, TokenGuild(T))) = 0]_vars

\* the shift type ids configured for a guild
ConfiguredTypes(guild) ==
    IF HasKey(settings[guild], "shift_types")
    THEN {settings[guild].shift_types[i].id :
             i \in 1..Len(settings[guild].shift_types)}
    ELSE {}

\* C8: a duty-on that resolves its token, guild, member and settings and
\* requests a shift type that is not among the guild's configured shift types
\* fails with 400 and opens no shift record, also when the guild has no or an
\* empty shift_types list; without a requested shift type it opens an
\* untagged shift whatever is configured.
C8_UnknownShiftTypeIs400 ==
    [][(last'.op = "duty_on") =>
          LET T == last'.req.authorization
              body == last'.req.body IN
          (POST_duty_on(T, body) /\ ResolveOn(T, body).status = 0) =>
              LET r == ResolveOn(T, body) IN
              /\ (body.shift_type # None
                    /\ body.shift_type \notin ConfiguredTypes(r.guild)) =>
                    (last'.status = 400 /\ shifts' = shifts)
              /\ (body.shift_type = None) =>
                    /\ last'.status = 200
                    /\ shifts' = add_shift_by_user(r.member, [guild |-> r.guild])]_vars

\* C9: duty-off accepts the path in which the request resolves to no stored
\* token document (no token, or the static bypass credential): for a body
\* naming a guild in which the member has an open shift the request closes
\* that shift and completes without error.
C9_DutyOffBodyGuildPath ==
    [][(last'.op = "duty_off") =>
          LET T == last'.req.authorization
              body == last'.req.body IN
          (/\ POST_duty_off(T, body)
           /\ T \in {NoHeader, StaticToken}
           /\ ~TokenFound(T)
           /\ body.guild \in BotGuilds
           /\ body.steam_id \in DOMAIN FivemLinks
           /\ Len(OpenShifts(shifts, FivemLinks[body.steam_id]._id, body.guild)) > 0) =>
              /\ last'.status = 200
              /\ Len(OpenShifts(shifts', FivemLinks[body.steam_id]._id, body.guild))
                    = Len(OpenShifts(shifts, FivemLinks[body.steam_id]._id, body.guild)) - 1]_vars

\* C10: the Shift Ledger holds at most one active shift per (member, guild)
\* pair in every state reachable by duty-on and duty-off requests.
C10_OneActiveShiftPerPair ==
    \A member \in DOMAIN shifts, guild \in BotGuilds :
        Len(OpenShifts(shifts, member, guild)) <= 1

(***************************************************************************)
(* POST_update_guild_settings (specification SpecSettings)                 *)
(***************************************************************************)
Sections == {"customisation", "shift_management"}
\* the values a request supplies under a top-level key: a JSON object
\* (dict |-> TRUE with its items) or anything else
DictValues ==
    {[dict |-> TRUE, items |-> ("k1" :> 1)],
     [dict |-> TRUE, items |-> ("k3" :> 1)],
     [dict |-> TRUE, items |-> ("k1" :> 1) @@ ("k3" :> 1)]}
BodyValues == DictValues \cup {[dict |-> FALSE, items |-> ("scalar" :> 1)]}
BodyItem == [key : Sections, value : BodyValues]
\* json_data.items() without "guild", in the order of the request body
SettingsBodies ==
    {items \in UNION {[1..n -> BodyItem] : n \in 0..MaxBodyKeys} :
        \A i, j \in 1..Len(items) : items[i].key = items[j].key => i = j}
SettingsGuilds == {"G1", "G9"}

\* bot.settings.find_by_id(guild_id): a fresh copy of the stored document
FindSettings(guild_id) == settings[guild_id]

\* the for loop of POST_update_guild_settings: the local variable settings
\* after the loop (bound |-> FALSE while it was never assigned), or the
\* status the loop leaves with
Unbound == [bound |-> FALSE]
RECURSIVE MergeLoop(_, _, _)
MergeLoop(items, guild_id, local) ==
    IF Len(items) = 0 THEN [status |-> 0, local |-> local]
    ELSE LET key == Head(items).key
             value == Head(items).value
         IN  IF ~value.dict THEN MergeLoop(Tail(items), guild_id, local)
             ELSE IF guild_id \notin DOMAIN settings
             THEN [status |-> 400, local |-> local]
             ELSE LET fetched == FindSettings(guild_id) IN
             IF key \notin DOMAIN fetched
             THEN [status |-> 500, local |-> local]      \* KeyError
             ELSE MergeLoop(Tail(items), guild_id,
                      [bound |-> TRUE,
                       doc |-> [fetched EXCEPT ![key] = value.items @@ @]])

POST_update_guild_settings(guild_id, items) ==
    LET req == [guild |-> guild_id, items |-> items]
        r == MergeLoop(items, guild_id, Unbound)
    IN
    /\ IF r.status # 0
       THEN /\ last' = Resp("update_guild_settings", req, r.status, NoDoc)
            /\ UNCHANGED settings
       ELSE IF ~r.local.bound
       THEN \* update_by_id(settings) with settings never assigned
            /\ last' = Resp("update_guild_settings", req, 500, NoDoc)
            /\ UNCHANGED settings
       ELSE /\ settings' = UpdateById(settings, r.local.doc)
            /\ last' = IF guild_id \notin BotGuilds
                       THEN Resp("update_guild_settings", req, 500, NoDoc)
                       ELSE Resp("update_guild_settings", req, 200,
                                 UpdateById(settings, r.local.doc)[guild_id])
    /\ UNCHANGED <<now, ticks, ntok, api_tokens, link_strings, shifts>>
    /\ UNCHANGED <<pagVars, inflight>>

\* a guild whose settings document has two sections
SettingsStarted ==
    /\ now = 0
    /\ ticks = 0
    /\ ntok = 0
    /\ api_tokens = <<>>
    /\ link_strings = InitialLinkStrings
    /\ settings = ("G1" :> [_id |-> "G1",
                            customisation |-> ("k1" :> 0) @@ ("k2" :> 0),
                            shift_management |-> ("k1" :> 0) @@ ("k2" :> 0)])
    /\ shifts = <<>>
    /\ last = Resp("none", NoDoc, 0, NoDoc)
    /\ inflight = <<>>

SettingsInit == SettingsStarted /\ PagIdle
SettingsNext ==
    \E guild_id \in SettingsGuilds, items \in SettingsBodies :
        POST_update_guild_settings(guild_id, items)
SpecSettings == SettingsInit /\ [][SettingsNext]_vars

\* the request names nested key k of section sec
Named(items, sec, k) ==
    \E i \in 1..Len(items) :
        items[i].key = sec /\ items[i].value.dict /\ k \in DOMAIN items[i].value.items

\* C11: update_guild_settings merges the whole request: for a body with any
\* number of dict-valued top-level keys, the stored settings of the guild
\* afterwards contain every supplied nested key/value under every supplied
\* top-level key, and every settings entry the body does not name is
\* unchanged.
C11_MergesWholeRequest ==
    [][(last'.op = "update_guild_settings") =>
          LET g == last'.req.guild
              items == last'.req.items IN
          (POST_update_guild_settings(g, items) /\ g \in DOMAIN settings) =>
              /\ \A i \in 1..Len(items) :
                    items[i].value.dict =>
                        \A k \in DOMAIN items[i].value.items :
                            /\ k \in DOMAIN settings'[g][items[i].key]
                            /\ settings'[g][items[i].key][k] = items[i].value.items[k]
              /\ \A sec \in Sections : \A k \in DOMAIN settings[g][sec] :
                    ~Named(items, sec, k) =>
                        /\ k \in DOMAIN settings'[g][sec]
                        /\ settings'[g][sec][k] = settings[g][sec][k]]_vars

(***************************************************************************)
(* The token-gated read handlers (specification SpecGated)                 *)
(***************************************************************************)
\* the inline expiry tests: now > expires_at
GetLinkStringExpired(t, doc) == t > doc.expires_at
GetOnlineStaffExpired(t, doc) == t > doc.expires_at
GetDiscordExpired(t, doc) == t > doc.expires_at
GetFivemExpired(t, doc) == t > doc.expires_at

\* the inline expiry test of handler op
IsExpired(op, t, doc) ==
    CASE op = "get_link_string" -> GetLinkStringExpired(t, doc)
      [] op = "get_online_staff" -> GetOnlineStaffExpired(t, doc)
      [] op = "get_discord" -> GetDiscordExpired(t, doc)
      [] op = "get_fivem" -> GetFivemExpired(t, doc)

\* the common opening of the gated handlers: header, token document, expiry;
\* 0 when the token passes
TokenGate(authorization, op) ==
    IF authorization = NoHeader THEN 401
    ELSE IF ~TokenFound(authorization) THEN 401
    ELSE IF IsExpired(op, now, TokenDoc(authorization)) THEN 401
    ELSE 0

\* ... followed by the lookup of the token's link string
LinkGate(authorization, op) ==
    IF TokenGate(authorization, op) # 0
    THEN TokenGate(authorization, op)
    ELSE IF ~HasKey(TokenDoc(authorization), "link_string") THEN 500  \* KeyError
    ELSE IF TokenDoc(authorization).link_string \notin DOMAIN link_strings THEN 401
    ELSE 0

ReadOnly ==
    /\ UNCHANGED <<now, ticks, ntok, api_tokens, link_strings, settings, shifts>>
    /\ UNCHANGED <<pagVars, inflight>>

GET_get_link_string(authorization) ==
    LET req == [authorization |-> authorization]
        st == TokenGate(authorization, "get_link_string")
    IN
    /\ last' = IF st # 0 THEN Resp("get_link_string", req, st, NoDoc)
               ELSE Resp("get_link_string", req, 200, TokenDoc(authorization))
    /\ ReadOnly

\* bot.fivem_links.db.find_one({"_id": discord_id})
FivemOfMember(member) == {sid \in DOMAIN FivemLinks : FivemLinks[sid]._id = member}
SteamOfMember(member) ==
    IF FivemOfMember(member) = {} THEN None
    ELSE FivemLinks[CHOOSE sid \in FivemOfMember(member) : TRUE].steam_id

\* the list GET_get_online_staff returns, by member: the member's first
\* entry for the guild with "discord" and "fivem" attached
OnlineStaff(guild) ==
    LET on == {mem \in DOMAIN shifts :
                  Len(AssociatedShifts(shifts[mem].data, guild)) > 0}
    IN  [mem \in on |->
            ("discord" :> mem) @@ ("fivem" :> SteamOfMember(mem))
                @@ AssociatedShifts(shifts[mem].data, guild)[1]]

GET_get_online_staff(authorization) ==
    LET req == [authorization |-> authorization]
        st == LinkGate(authorization, "get_online_staff")
    IN
    /\ last' =
          IF st # 0 THEN Resp("get_online_staff", req, st, NoDoc)
          ELSE LET guild == link_strings[TokenDoc(authorization).link_string].guild
               IN  IF guild \notin BotGuilds
                   THEN Resp("get_online_staff", req, 404, NoDoc)
                   ELSE Resp("get_online_staff", req, 200, OnlineStaff(guild))
    /\ ReadOnly

Licenses == {None, "C1", "C9"}
DiscordIds == {None, "M1", "M9"}

\* {"status": "success"}.update(fivem_link) evaluates to None
POST_get_discord(authorization, license) ==
    LET req == [authorization |-> authorization, license |-> license]
        st == LinkGate(authorization, "get_discord")
    IN
    /\ last' =
          IF st # 0 THEN Resp("get_discord", req, st, NoDoc)
          ELSE IF license = None THEN Resp("get_discord", req, 400, NoDoc)
          ELSE IF \E sid \in DOMAIN FivemLinks : FivemLinks[sid].license = license
          THEN Resp("get_discord", req, 200, NoDoc)
          ELSE Resp("get_discord", req, 200, [status |-> "failed"])
    /\ ReadOnly

POST_get_fivem(authorization, discord_id) ==
    LET req == [authorization |-> authorization, discord_id |-> discord_id]
        st == LinkGate(authorization, "get_fivem")
    IN
    /\ last' =
          IF st # 0 THEN Resp("get_fivem", req, st, NoDoc)
          ELSE IF discord_id = None THEN Resp("get_fivem", req, 400, NoDoc)
          ELSE IF FivemOfMember(discord_id) # {}
          THEN Resp("get_fivem", req, 200, NoDoc)
          ELSE Resp("get_fivem", req, 200, [status |-> "failed"])
    /\ ReadOnly

GatedInit == DutyStarted /\ PagIdle
GatedNext ==
    \/ Tick
    \/ \E host \in Hosts, authorization \in KeyHeaders :
          GET_get_token(host, authorization)
    \/ \E authorization \in TokenHeaders : GET_get_link_string(authorization)
    \/ \E authorization \in TokenHeaders : GET_get_online_staff(authorization)
    \/ \E authorization \in TokenHeaders, license \in Licenses :
          POST_get_discord(authorization, license)
    \/ \E authorization \in TokenHeaders, discord_id \in DiscordIds :
          POST_get_fivem(authorization, discord_id)
    \/ \E authorization \in TokenHeaders, body \in DutyOnBodies :
          POST_duty_on(authorization, body)
SpecGated == GatedInit /\ [][GatedNext]_vars

\* C12: every token-gated code path agrees with validate_authorization
\* (static bypass disabled) on whether a stored token is still valid, at
\* every time including the second of expiry: get_token's reuse test and the
\* inline expiry tests of get_link_string, get_online_staff, get_discord,
\* get_fivem and duty_on accept the token exactly when the validator does.
C12_ExpiryChecksAgree ==
    \A h \in DOMAIN api_tokens :
        LET doc == api_tokens[h]
            valid == validate_authorization(doc.token, TRUE) = "True"
        IN  /\ Reusable(now, doc) <=> valid
            /\ ~GetLinkStringExpired(now, doc) <=> valid
            /\ ~GetOnlineStaffExpired(now, doc) <=> valid
            /\ ~GetDiscordExpired(now, doc) <=> valid
            /\ ~GetFivemExpired(now, doc) <=> valid
            /\ ~Expired(now, doc) <=> valid

(***************************************************************************)
(* Interleaved GET_get_token requests (specification SpecRace)             *)
(*                                                                         *)
(* A coroutine is suspended at each await: GET_get_token at find_by_id     *)
(* (line 226) and at upsert (line 239).  get_token_lookup runs a request   *)
(* up to the result of find_by_id, get_token_finish from there to its      *)
(* return; other requests may run in between.                              *)
(***************************************************************************)
Request(op, host, authorization, pc, status, loc, ret) ==
    [op |-> op, host |-> host, authorization |-> authorization, pc |-> pc,
     status |-> status, loc |-> loc, ret |-> ret]

AllDone == \A r \in 1..Len(inflight) : inflight[r].pc = "done"

RaceFrame ==
    /\ UNCHANGED <<ticks, link_strings, settings, shifts, last>>
    /\ UNCHANGED pagVars

get_token_lookup(host, authorization) ==
    /\ Len(inflight) < MaxRequests
    /\ inflight' = Append(inflight,
          IF authorization # PrivateKey
          THEN Request("get_token", host, authorization, "done", 401, NoDoc, NoDoc)
          ELSE Request("get_token", host, authorization, "looked_up", 0,
                       IF host \in DOMAIN api_tokens THEN api_tokens[host] ELSE NoDoc,
                       NoDoc))
    /\ UNCHANGED <<now, ntok, api_tokens>>
    /\ RaceFrame

get_token_finish(r) ==
    /\ inflight[r].op = "get_token"
    /\ inflight[r].pc = "looked_up"
    /\ LET has_token == inflight[r].loc
           host == inflight[r].host
       IN  IF has_token # NoDoc /\ Reusable(now, has_token)
           THEN /\ inflight' = [inflight EXCEPT ![r].pc = "done",
                                                ![r].status = 200,
                                                ![r].ret = has_token]
                /\ UNCHANGED <<ntok, api_tokens>>
           ELSE /\ ntok < MaxTokens
                /\ LET object == [_id |-> host,
                                  token |-> tokenGenerator,
                                  created_at |-> now,
                                  expires_at |-> now + TokenLifetime]
                   IN  /\ api_tokens' = Upsert(api_tokens, object)
                       /\ inflight' = [inflight EXCEPT ![r].pc = "done",
                                                       ![r].status = 200,
                                                       ![r].ret = object]
                /\ ntok' = ntok + 1
    /\ UNCHANGED now
    /\ RaceFrame

RaceInit == ApiStarted /\ PagIdle
RaceNext ==
    \/ Tick
    \/ \E host \in Hosts, authorization \in KeyHeaders :
          get_token_lookup(host, authorization)
    \/ \E r \in 1..Len(inflight) : get_token_finish(r)
SpecRace == RaceInit /\ [][RaceNext]_vars

\* C13: under any interleaving of get_token requests, once all requests have
\* completed, every token object returned to a caller and not yet expired is
\* the token stored for the caller's address, and validate_authorization
\* accepts it.
C13_ReturnedTokensStayValid ==
    AllDone =>
        \A r \in 1..Len(inflight) :
            (/\ inflight[r].op = "get_token"
             /\ inflight[r].status = 200
             /\ now < inflight[r].ret.expires_at) =>
                /\ inflight[r].host \in DOMAIN api_tokens
                /\ api_tokens[inflight[r].host].token = inflight[r].ret.token
                /\ validate_authorization(inflight[r].ret.token, TRUE) = "True"

(***************************************************************************)
(* Interleaved POST_authorize_token calls (specification SpecLink)         *)
(*                                                                         *)
(* The awaits of POST_authorize_token: validate_authorization (line 259),  *)
(* find_one on the tokens (265), find_one on the link strings (270),       *)
(* update_by_id of the link string (280) and of the token (283).  Each is  *)
(* one action; the documents a call holds between them are its locals.     *)
(***************************************************************************)
Locals(token_obj, link_string_obj) ==
    [token_obj |-> token_obj, link_string_obj |-> link_string_obj]

Finish(r, status, ret) ==
    inflight' = [inflight EXCEPT ![r].pc = "done", ![r].status = status,
                                 ![r].ret = ret]

Goto(r, pc, loc) ==
    inflight' = [inflight EXCEPT ![r].pc = pc, ![r].loc = loc]

LinkFrame ==
    /\ UNCHANGED <<now, ticks, ntok, settings, shifts, last>>
    /\ UNCHANGED pagVars

authorize_validate(authorization, x_link_string) ==
    /\ Len(inflight) < MaxRequests
    /\ LET status == IF authorization = NoHeader THEN 401
                     ELSE IF AuthorizeCheck(authorization) = "KeyError" THEN 500
                     ELSE IF AuthorizeCheck(authorization) # "True" THEN 401
                     ELSE 0
       IN  inflight' = Append(inflight,
              ("x_link_string" :> x_link_string) @@
              Request("authorize_token", None, authorization,
                      IF status = 0 THEN "validated" ELSE "done",
                      status, Locals(NoDoc, NoDoc), NoDoc))
    /\ UNCHANGED <<api_tokens, link_strings>>
    /\ LinkFrame

authorize_find_token(r) ==
    /\ inflight[r].op = "authorize_token"
    /\ inflight[r].pc = "validated"
    /\ LET authorization == inflight[r].authorization
           token_obj == IF TokenFound(authorization)
                        THEN TokenDoc(authorization) ELSE NoDoc
       IN  IF inflight[r].x_link_string = None
           THEN Finish(r, 401, NoDoc)
           ELSE Goto(r, "token_found", Locals(token_obj, NoDoc))
    /\ UNCHANGED <<api_tokens, link_strings>>
    /\ LinkFrame

authorize_find_link(r) ==
    /\ inflight[r].op = "authorize_token"
    /\ inflight[r].pc = "token_found"
    /\ LET x_link_string == inflight[r].x_link_string
           token_obj == inflight[r].loc.token_obj
       IN  IF x_link_string \notin DOMAIN link_strings
           THEN Finish(r, 401, NoDoc)
           ELSE IF token_obj = NoDoc
           THEN \* token_obj is None: token_obj["_id"] raises TypeError
                Finish(r, 500, NoDoc)
           ELSE Goto(r, "link_found",
                     Locals(token_obj,
                            LinkUpdate(link_strings[x_link_string],
                                       inflight[r].authorization, token_obj)))
    /\ UNCHANGED <<api_tokens, link_strings>>
    /\ LinkFrame

authorize_persist_link(r) ==
    /\ inflight[r].op = "authorize_token"
    /\ inflight[r].pc = "link_found"
    /\ link_strings' = UpdateById(link_strings, inflight[r].loc.link_string_obj)
    /\ Goto(r, "link_persisted", inflight[r].loc)
    /\ UNCHANGED api_tokens
    /\ LinkFrame

authorize_persist_token(r) ==
    /\ inflight[r].op = "authorize_token"
    /\ inflight[r].pc = "link_persisted"
    /\ LET link_string_obj == inflight[r].loc.link_string_obj
           token_upd == ("link_string" :> link_string_obj._id) @@
                        inflight[r].loc.token_obj
       IN  /\ api_tokens' = UpdateById(api_tokens, token_upd)
           /\ Finish(r, 200, link_string_obj)
    /\ UNCHANGED link_strings
    /\ LinkFrame

\* the stores after h1 and h2 fetched tokens and before any link
LinkStarted ==
    /\ now = 0
    /\ ticks = 0
    /\ ntok = 2
    /\ api_tokens = ("h1" :> IssuedToken("h1", 1)) @@
                    ("h2" :> IssuedToken("h2", 2))
    /\ link_strings = InitialLinkStrings
    /\ settings = <<>>
    /\ shifts = <<>>
    /\ last = Resp("none", NoDoc, 0, NoDoc)
    /\ inflight = <<>>

LinkInit == LinkStarted /\ PagIdle
LinkNext ==
    \/ Tick
    \/ \E authorization \in TokenHeaders, x_link_string \in LinkHeaders :
          authorize_validate(authorization, x_link_string)
    \/ \E r \in 1..Len(inflight) : authorize_find_token(r)
    \/ \E r \in 1..Len(inflight) : authorize_find_link(r)
    \/ \E r \in 1..Len(inflight) : authorize_persist_link(r)
    \/ \E r \in 1..Len(inflight) : authorize_persist_token(r)
SpecLink == LinkInit /\ [][LinkNext]_vars

\* C14: whenever no authorize_token call is in progress, every token document
\* with a link_string field L has a link-string document L whose token is
\* that token's string and whose ip is that token's client address.
C14_CrossReferencesConsistent ==
    AllDone =>
        \A h \in DOMAIN api_tokens :
            HasKey(api_tokens[h], "link_string") =>
                LET L == api_tokens[h].link_string
                IN  /\ L \in DOMAIN link_strings
                    /\ HasKey(link_strings[L], "token")
                    /\ link_strings[L].token = api_tokens[h].token
                    /\ HasKey(link_strings[L], "ip")
                    /\ link_strings[L].ip = h

====
